---- MODULE Spec2Model ----
(***************************************************************************)
(* Pristine Data (src/clean1.py): a Streamlit page that re-executes the    *)
(* whole script on every user interaction.  One action of this model is    *)
(* one interaction: the widget change that triggers the rerun, followed by *)
(* the complete run of the script (lines 45-168).                          *)
(*                                                                         *)
(* What survives from one run to the next is st.session_state (the keys    *)
(* last_uploaded_file and modified_columns) and the file held by the       *)
(* uploader widget.  The DataFrame df is a local of the run: line 63       *)
(* reads it again from the uploaded file in every run.                     *)
(*                                                                         *)
(* Library behaviour the model relies on:                                  *)
(*  - st.button is True only in the run its click triggers, so a run       *)
(*    applies at most one of Reset / Update Value / Delete Duplicates /    *)
(*    Fill Missing Values;                                                 *)
(*  - file_uploader hands every run a fresh reader of the uploaded bytes;  *)
(*    two UploadedFile objects are equal iff they are the same upload;     *)
(*  - st.session_state.clear() drops every key and every widget value;     *)
(*  - two text_input calls with the same label and value and no key raise  *)
(*    DuplicateWidgetID;                                                   *)
(*  - a selectbox over no options returns None;                            *)
(*  - DataFrame.at falls back to .loc when the column labels are not       *)
(*    unique; Styler.applymap refuses non-unique column labels;            *)
(*  - read_csv raises EmptyDataError on a file with no header line and     *)
(*    reads the strings in NaValues as missing.                            *)
(* Cells are untyped texts or missing; dtype inference is not modelled.     *)
(* The charts (lines 118-161) read df and keep no state; they are not      *)
(* modelled.                                                               *)
(***************************************************************************)
EXTENDS Integers, Sequences, FiniteSets, TLC

\* ---------------------------------------------------------------- bounds

\* How many column names the rename fields can be given.
NumNames == 3
\* Rows of an uploaded file, in the specification over all small tables.
MaxRows == 3

AllNames == <<"a", "b", "c", "d", "e">>
Names == {AllNames[i] : i \in 1..NumNames}
\* Upload identifiers: a new upload needs one that is neither held nor recorded.
FileIds == {1, 2}

\* Texts the user types into the value fields (lines 88 and 113).
Literals == {"u", "z"}
\* Texts a cell of an uploaded CSV file holds.
CsvCells == {"u", ""}

\* ------------------------------------------------------------ cell values

\* A cell is missing (NaN) or holds a text.
NaN == <<>>
Str(s) == <<s>>
isnull(x) == x = NaN

\* pandas' default na_values, as far as the modelled files use them.
NaValues == {"", "NA"}

ParseCell(s) == IF s \in NaValues THEN NaN ELSE Str(s)
\* to_csv writes a missing cell as the empty field (na_rep = '').
FormatCell(x) == IF isnull(x) THEN "" ELSE x[1]

\* ----------------------------------------------------------------- tables

\* A DataFrame: column labels, and rows carrying their index label.
NoTable == [columns |-> <<>>, rows |-> <<>>, present |-> FALSE]
Table(cols, rs) == [columns |-> cols, rows |-> rs, present |-> TRUE]

Range(s) == {s[i] : i \in DOMAIN s}
IsUnique(s) == \A i, j \in DOMAIN s : s[i] = s[j] => i = j

\* pd.read_csv: the first line is the header, the index is 0..n-1.
Parses(csv) == Len(csv.header) > 0
ReadCsv(csv) ==
    Table(csv.header,
          [i \in 1..Len(csv.rows) |->
              [label |-> i - 1,
               cells |-> [j \in 1..Len(csv.header) |-> ParseCell(csv.rows[i][j])]]])

\* df.to_csv(index=False): header row, then the rows in order, no index.
convert_df_to_csv(df) ==
    [header |-> df.columns,
     rows |-> [i \in 1..Len(df.rows) |->
                 [j \in 1..Len(df.columns) |-> FormatCell(df.rows[i].cells[j])]]]

\* df.columns = new_column_names
SetColumns(df, names) == [df EXCEPT !.columns = names]

\* SetCell gone wrong: the whole row r is overwritten.
SetCellWholeRow(df, r, c, v) ==
    [df EXCEPT !.rows = [i \in DOMAIN df.rows |->
        IF df.rows[i].label = r
        THEN [df.rows[i] EXCEPT !.cells = [j \in DOMAIN df.columns |-> v]]
        ELSE df.rows[i]]]

\* df.at[r, c] = v : every row labelled r, every column labelled c.
SetCell(df, r, c, v) ==
    [df EXCEPT !.rows = [i \in DOMAIN df.rows |->
        IF df.rows[i].label = r
        THEN [df.rows[i] EXCEPT !.cells = [j \in DOMAIN df.columns |->
                 IF df.columns[j] = c THEN v ELSE df.rows[i].cells[j]]]
        ELSE df.rows[i]]]

\* df.duplicated(): row i repeats an earlier row (NaN equals NaN here).
duplicated(df) ==
    [i \in DOMAIN df.rows |->
        \E j \in 1..(i - 1) : df.rows[j].cells = df.rows[i].cells]

RECURSIVE CountTrue(_)
CountTrue(s) ==
    IF s = <<>> THEN 0
    ELSE (IF Head(s) THEN 1 ELSE 0) + CountTrue(Tail(s))

duplicate_count(df) == CountTrue(duplicated(df))

\* df.drop_duplicates(inplace=True): one pass that keeps a row the first
\* time its values are seen; kept rows keep their index label.
RECURSIVE DropScan(_, _)
DropScan(rs, seen) ==
    IF rs = <<>> THEN <<>>
    ELSE IF Head(rs).cells \in seen
         THEN DropScan(Tail(rs), seen)
         ELSE <<Head(rs)>> \o DropScan(Tail(rs), seen \cup {Head(rs).cells})

\* drop_duplicates gone wrong: keep='last'.
RECURSIVE DropScanLast(_)
DropScanLast(rs) ==
    IF rs = <<>> THEN <<>>
    ELSE IF \E k \in DOMAIN Tail(rs) : Tail(rs)[k].cells = Head(rs).cells
         THEN DropScanLast(Tail(rs))
         ELSE <<Head(rs)>> \o DropScanLast(Tail(rs))
drop_duplicates_keep_last(df) == [df EXCEPT !.rows = DropScanLast(df.rows)]

drop_duplicates(df) == [df EXCEPT !.rows = DropScan(df.rows, {})]

\* fillna gone wrong: df = df.fillna(v), whatever non-empty S is selected.
fillna_every_column(df, S, v) ==
    [df EXCEPT !.rows = [i \in DOMAIN df.rows |->
        [df.rows[i] EXCEPT !.cells = [j \in DOMAIN df.columns |->
            IF S # {} /\ isnull(df.rows[i].cells[j])
            THEN Str(v) ELSE df.rows[i].cells[j]]]]]

\* df[S] = df[S].fillna(v) for the selected labels S.
fillna(df, S, v) ==
    [df EXCEPT !.rows = [i \in DOMAIN df.rows |->
        [df.rows[i] EXCEPT !.cells = [j \in DOMAIN df.columns |->
            IF df.columns[j] \in S /\ isnull(df.rows[i].cells[j])
            THEN Str(v) ELSE df.rows[i].cells[j]]]]]

\* ---------------------------------------------------------- session state

\* st.session_state: a mapping from the keys that are set to their values.
EmptySession == [k \in {} |-> 0]
Has(s, k) == k \in DOMAIN s
Put(s, k, v) == [x \in DOMAIN s \cup {k} |-> IF x = k THEN v ELSE s[x]]

\* reset_session_state gone wrong: nothing is cleared.
keep_session_state(s) == s

\* reset_session_state(): st.session_state.clear()
reset_session_state(s) == EmptySession

\* ------------------------------------------------------------ uploads, UI

EmptyCsv == [header |-> <<>>, rows |-> <<>>]
\* file is None
NoFile == [id |-> 0, content |-> EmptyCsv]

\* The widget change that triggers a run, with the widget values it reads.
Ev(kind) == [kind |-> kind, pos |-> 0, text |-> "", col |-> "", row |-> 0, cols |-> {}]

\* st.selectbox: the chosen option while it is an option, else the first;
\* None (the empty tuple) when there is no option.
None == <<>>
selectbox(options, chosen) ==
    IF options = <<>> THEN None
    ELSE IF chosen \in Range(options) THEN <<chosen>> ELSE <<options[1]>>

\* range(len(df)) gone wrong: range(1, len(df) + 1).
RowRangeFromOne(df) == [i \in 1..Len(df.rows) |-> i]

\* range(len(df))
RowRange(df) == [i \in 1..Len(df.rows) |-> i - 1]
Labels(df) == {df.rows[i].label : i \in DOMAIN df.rows}

NoOverview == [shown |-> FALSE, rows |-> 0, columns |-> 0, summary |-> <<>>]
\* Lines 69-71: 'Rows: n | Columns: m' and summary(df), one line per column.
Overview(df) ==
    [shown |-> TRUE, rows |-> Len(df.rows), columns |-> Len(df.columns),
     summary |-> df.columns]

\* The text fields of the rename loop that get onto the page: the loop
\* (lines 76-78) stops at the first field that repeats an earlier one.
RECURSIVE UniquePrefix(_, _)
UniquePrefix(s, n) ==
    IF n >= Len(s) THEN n
    ELSE IF s[n + 1] \in {s[i] : i \in 1..n} THEN n
    ELSE UniquePrefix(s, n + 1)

\* The page before a run has written anything to it.
BlankPage ==
    [outcome |-> "nofile", error |-> "", overview |-> NoOverview,
     renameInputs |-> 0, colOptions |-> <<>>, rowOptions |-> <<>>,
     duplicate_count |-> 0, buttons |-> {}, offered |-> FALSE,
     download |-> EmptyCsv]

\* except Exception as e: st.error(f"An error occurred: {e}")
Raised(page, e) == [page EXCEPT !.outcome = "error", !.error = e]

\* ---------------------------------------------------------------- one run

\* Lines 48-49: the Reset button.
AfterResetButton(ss, ev) ==
    IF ev.kind = "reset" THEN reset_session_state(ss) ELSE ss

\* Line 58: the upload is not the recorded one, or none is recorded.
IsNewUpload(ss, f) ==
    ~Has(ss, "last_uploaded_file") \/ ss.last_uploaded_file # f.id

\* Lines 58-60 gone wrong: the marker is recorded without the reset.
RecordUploadOnly(ss, f) == Put(ss, "last_uploaded_file", f.id)

\* Lines 58-60: a new upload clears the session; the marker is recorded.
AfterUploadCheck(ss, f) ==
    Put(IF IsNewUpload(ss, f) THEN reset_session_state(ss) ELSE ss,
        "last_uploaded_file", f.id)

\* Lines 66-67 gone wrong: the column list is set from the file in every run.
AlwaysColumnInit(ss, df) == Put(ss, "modified_columns", df.columns)

\* Lines 66-67: the column list is set from the file only when it is absent.
AfterColumnInit(ss, df) ==
    IF ~Has(ss, "modified_columns")
    THEN Put(ss, "modified_columns", df.columns) ELSE ss

\* Lines 75-78: each text field returns its label's name, or what was typed.
NewColumnNames(mc, ev) ==
    [i \in DOMAIN mc |-> IF ev.kind = "rename" /\ ev.pos = i THEN ev.text ELSE mc[i]]

\* Lines 84-116 on the renamed table df1, session s5 already stored.
EditPipeline(s5, page1, df1, ev) ==
    LET selected_column == selectbox(df1.columns, ev.col)
        rowOptions == RowRange(df1)
        selected_row == selectbox(rowOptions, ev.row)
        page2 == [page1 EXCEPT !.colOptions = df1.columns,
                               !.rowOptions = rowOptions]
    IN  \* line 87: df.at[None, c] and a label outside the index raise KeyError
        IF selected_column # None /\ selected_column[1] # ""
           /\ (selected_row = None \/ selected_row[1] \notin Labels(df1))
        THEN [session |-> s5, df |-> df1, page |-> Raised(page2, "KeyError")]
        ELSE
        LET canEdit == selected_column # None /\ selected_column[1] # ""
            df2 == IF canEdit /\ ev.kind = "update"
                   THEN SetCell(df1, selected_row[1], selected_column[1], Str(ev.text))
                   ELSE df1
            df3 == IF ev.kind = "dedup" THEN drop_duplicates(df2) ELSE df2
            page3 == [page2 EXCEPT
                        !.duplicate_count = duplicate_count(df2),
                        !.buttons = (IF canEdit THEN {"Update Value"} ELSE {})
                                    \cup {"Delete Duplicates"}]
        IN  \* lines 103-106: the Styler refuses non-unique column labels
            IF ~IsUnique(df3.columns)
            THEN [session |-> s5, df |-> df3, page |-> Raised(page3, "StylerError")]
            ELSE
            LET fill_na_columns == ev.cols \cap Range(df3.columns)
                df4 == IF ev.kind = "fill"
                       THEN fillna(df3, fill_na_columns, ev.text) ELSE df3
            IN  [session |-> s5, df |-> df4,
                 page |-> [page3 EXCEPT
                             !.outcome = "ok",
                             !.buttons = @ \cup {"Fill Missing Values"},
                             !.offered = TRUE,
                             !.download = convert_df_to_csv(df4)]]

\* Lines 45-168: the script, run on the uploader's file f, the session ss
\* and the triggering event ev.
Run(f, ss, ev) ==
    LET s1 == AfterResetButton(ss, ev)
    IN  IF f = NoFile
        THEN [session |-> s1, df |-> NoTable, page |-> BlankPage]
        ELSE
        LET s3 == AfterUploadCheck(s1, f)
        IN  IF ~Parses(f.content)
            THEN [session |-> s3, df |-> NoTable,
                  page |-> Raised(BlankPage, "EmptyDataError")]
            ELSE
            LET df0 == ReadCsv(f.content)
                s4 == AfterColumnInit(s3, df0)
                mc == s4.modified_columns
                page1 == [BlankPage EXCEPT !.overview = Overview(df0),
                                           !.renameInputs = UniquePrefix(mc, 0)]
                new_column_names == NewColumnNames(mc, ev)
            IN  IF ~IsUnique(mc)
                THEN [session |-> s4, df |-> df0,
                      page |-> Raised(page1, "DuplicateWidgetID")]
                ELSE IF Len(new_column_names) # Len(df0.columns)
                THEN [session |-> s4, df |-> df0,
                      page |-> Raised(page1, "ValueError")]
                ELSE EditPipeline(Put(s4, "modified_columns", new_column_names),
                                  page1, SetColumns(df0, new_column_names), ev)

\* ------------------------------------------------------------------ state

VARIABLES
    file,       \* the upload held by the file_uploader widget, or NoFile
    session,    \* st.session_state
    event,      \* the widget change that triggered the last run
    page,       \* what the last run rendered
    df          \* the last run's DataFrame when the run ended

vars == <<file, session, event, page, df>>

\* The page is opened: the script runs once with no upload.
Init ==
    /\ file = NoFile
    /\ session = EmptySession
    /\ event = Ev("open")
    /\ page = BlankPage
    /\ df = NoTable

Interaction(f, ev) ==
    LET r == Run(f, session, ev)
    IN  /\ file' = f
        /\ event' = ev
        /\ session' = r.session
        /\ page' = r.page
        /\ df' = r.df

\* The files the user has at hand in Spec.
SampleFiles ==
    { [header |-> <<"a", "b">>,
       rows |-> << <<"u", "v">>, <<"v", "">>, <<"u", "v">> >>],
      [header |-> <<"a">>, rows |-> << <<"NA">>, <<"NA">>, <<"u">> >>],
      [header |-> <<"a", "b">>, rows |-> <<>>],
      EmptyCsv }

\* An identifier no upload in sight carries.
IsFresh(id) ==
    /\ id # file.id
    /\ Has(session, "last_uploaded_file") => id # session.last_uploaded_file

\* A file is dropped on the uploader: a new upload, under the least fresh
\* identifier.
Upload(files) ==
    \E id \in FileIds, c \in files :
        /\ IsFresh(id)
        /\ \A k \in FileIds : IsFresh(k) => id <= k
        /\ Interaction([id |-> id, content |-> c], Ev("upload"))

\* The upload is removed from the uploader.
RemoveFile ==
    /\ file # NoFile
    /\ Interaction(NoFile, Ev("remove"))

\* Reset is clicked (line 48).
ClickReset == Interaction(file, Ev("reset"))

\* A rename field on the page is given another name (line 77).
Rename ==
    \E i \in 1..page.renameInputs, n \in Names :
        /\ n # session.modified_columns[i]
        /\ Interaction(file, [Ev("rename") EXCEPT !.pos = i, !.text = n])

\* A selector, a value field or the chart type is changed, or the download
\* is clicked: a rerun that presses no button.
Select ==
    /\ page.colOptions # <<>>
    /\ \E c \in Range(page.colOptions) :
         \E r \in IF page.rowOptions = <<>> THEN {0} ELSE Range(page.rowOptions) :
            Interaction(file, [Ev("select") EXCEPT !.col = c, !.row = r])

\* 'Update Value' is clicked (line 89) with the selectors' and the field's values.
ClickUpdate ==
    /\ "Update Value" \in page.buttons
    /\ \E c \in Range(page.colOptions), r \in Range(page.rowOptions), v \in Literals :
         Interaction(file, [Ev("update") EXCEPT !.col = c, !.row = r, !.text = v])

\* 'Delete Duplicates' is clicked (line 97).
ClickDedup ==
    /\ "Delete Duplicates" \in page.buttons
    /\ Interaction(file, Ev("dedup"))

\* 'Fill Missing Values' is clicked (line 114).
ClickFill ==
    /\ "Fill Missing Values" \in page.buttons
    /\ \E S \in SUBSET Range(page.colOptions), v \in Literals :
         Interaction(file, [Ev("fill") EXCEPT !.cols = S, !.text = v])

Next ==
    \/ Upload(SampleFiles)
    \/ RemoveFile
    \/ ClickReset
    \/ Rename
    \/ Select
    \/ ClickUpdate
    \/ ClickDedup
    \/ ClickFill

Spec == Init /\ [][Next]_vars

\* ------------------------------------------- every small two-column table

\* Every CSV file with the header a,b and at most MaxRows rows of CsvCells.
SmallFiles ==
    { [header |-> <<"a", "b">>, rows |-> rs] :
        rs \in UNION { [1..n -> [1..2 -> CsvCells]] : n \in 0..MaxRows } }

\* One of the small files has just been uploaded to the opened page.
InitTables ==
    \E c \in SmallFiles :
        LET f == [id |-> 1, content |-> c]
            r == Run(f, EmptySession, Ev("upload"))
        IN  /\ file = f
            /\ event = Ev("upload")
            /\ session = r.session
            /\ page = r.page
            /\ df = r.df

NextTables ==
    \/ ClickUpdate
    \/ ClickDedup
    \/ ClickFill

SpecTables == InitTables /\ [][NextTables]_vars


\* ----------------------------------------------------------------- claims

\* The table a run edits: the uploaded file as read, under the column names
\* the run stored (lines 63 and 79).
Loaded == SetColumns(ReadCsv(file.content), session.modified_columns)

SameShape(t, u) ==
    /\ t.columns = u.columns
    /\ Len(t.rows) = Len(u.rows)
    /\ \A i \in DOMAIN t.rows : t.rows[i].label = u.rows[i].label

\* The edit operation an event asks for, applied to a table.
OperationOf(ev, t) ==
    CASE ev.kind = "update" -> SetCell(t, ev.row, ev.col, Str(ev.text))
      [] ev.kind = "dedup" -> drop_duplicates(t)
      [] ev.kind = "fill" -> fillna(t, ev.cols, ev.text)
      [] OTHER -> t

\* C1: edits accumulate: on one upload with no reset in between, the table
\* (and the CSV offered for download) after an interaction is that
\* interaction's operation applied to the table the previous interaction
\* left, so that every earlier operation is still reflected.
C1_EditsAccumulate ==
    [][ ( /\ page.outcome = "ok" /\ page'.outcome = "ok"
          /\ file' = file
          /\ event'.kind \notin {"upload", "reset"} )
        => /\ df' = OperationOf(event', SetColumns(df, session'.modified_columns))
           /\ page'.download = convert_df_to_csv(df') ]_vars

\* C2: a completed 'Update Value' on column c, row r with literal v leaves
\* the table as loaded (renamed columns included) except that the cell
\* (r, c) holds v: every other cell, the labels and the shape are unchanged.
C2_CellEditOneCell ==
    (event.kind = "update" /\ page.outcome = "ok") =>
        /\ SameShape(df, Loaded)
        /\ \A i \in DOMAIN df.rows : \A j \in DOMAIN df.columns :
              df.rows[i].cells[j] =
                 IF i = event.row + 1 /\ df.columns[j] = event.col
                 THEN Str(event.text)
                 ELSE Loaded.rows[i].cells[j]
        /\ \E j \in DOMAIN df.columns : df.columns[j] = event.col
        /\ event.row + 1 \in DOMAIN df.rows

\* C2 witness: a cell of a table with two columns and several rows was
\* edited under column names that differ from the file's header.
C2_Witness ==
    /\ event.kind = "update" /\ page.outcome = "ok"
    /\ Len(df.columns) = 2 /\ Len(df.rows) >= 2
    /\ df.columns # file.content.header
    /\ event.col = df.columns[2] /\ event.row = 1
    /\ df # Loaded

\* C3: 'Fill Missing Values' with the selected columns S and literal v turns
\* every missing cell of a column in S into v and leaves every other cell
\* (columns outside S, populated cells) as it was; with S empty the table is
\* unchanged.
C3_FillOnlyMissingSelected ==
    (event.kind = "fill" /\ page.outcome = "ok") =>
        /\ SameShape(df, Loaded)
        /\ \A i \in DOMAIN df.rows : \A j \in DOMAIN df.columns :
              df.rows[i].cells[j] =
                 IF df.columns[j] \in event.cols /\ isnull(Loaded.rows[i].cells[j])
                 THEN Str(event.text)
                 ELSE Loaded.rows[i].cells[j]
        /\ event.cols = {} => df = Loaded

\* C3 witness: column a alone was filled; a missing cell of a got the
\* literal while a missing cell of b stayed missing.
C3_Witness ==
    /\ event.kind = "fill" /\ page.outcome = "ok"
    /\ event.cols = {"a"} /\ df.columns = <<"a", "b">>
    /\ \E i \in DOMAIN df.rows :
          /\ isnull(Loaded.rows[i].cells[1]) /\ df.rows[i].cells[1] = Str(event.text)
          /\ isnull(df.rows[i].cells[2])

\* C4: 'Delete Duplicates' leaves exactly the first occurrences: the rows
\* left are pairwise distinct, each is the earliest row with its values, the
\* original order is kept, every value of the original still occurs, the row
\* count drops by exactly the reported duplicate count, and removing again
\* changes nothing.
C4_DedupFirstOccurrences ==
    (event.kind = "dedup" /\ page.outcome = "ok") =>
        /\ df.columns = Loaded.columns
        /\ \A i, j \in DOMAIN df.rows :
              df.rows[i].cells = df.rows[j].cells => i = j
        /\ \A i \in DOMAIN df.rows :
              \E k \in DOMAIN Loaded.rows :
                 /\ Loaded.rows[k] = df.rows[i]
                 /\ \A m \in 1..(k - 1) : Loaded.rows[m].cells # df.rows[i].cells
        /\ \A i, j \in DOMAIN df.rows :
              i < j => df.rows[i].label < df.rows[j].label
        /\ \A k \in DOMAIN Loaded.rows :
              \E i \in DOMAIN df.rows : df.rows[i].cells = Loaded.rows[k].cells
        /\ Len(df.rows) <= Len(Loaded.rows)
        /\ Len(df.rows) = Len(Loaded.rows) - page.duplicate_count
        /\ drop_duplicates(df) = df

\* C4 witness: a duplicate in the middle was removed and two distinct rows
\* around it were kept.
C4_Witness ==
    /\ event.kind = "dedup" /\ page.outcome = "ok"
    /\ page.duplicate_count = 1
    /\ Len(df.rows) = 2
    /\ df.rows[1].label = 0 /\ df.rows[2].label = 2

C6_AllOrNothing ==
    Has(session, "last_uploaded_file") <=> Has(session, "modified_columns")

\* C7: an edit operation that raises leaves the session as it was before
\* the interaction.
C7_FailedEditLeavesSession ==
    [][ ( /\ page'.outcome = "error"
          /\ event'.kind \in {"rename", "update", "dedup", "fill"} )
        => session' = session ]_vars

RenameStepDone(pg) ==
    pg.outcome = "ok" \/ pg.error \in {"KeyError", "StylerError"}

\* C9: the stored column list mirrors the table: it has the table's column
\* count when the rename step starts (line 79 never raises), the step
\* replaces names positionally by the entered ones, after the step the list
\* equals the table's column names, and without a rename a later run on the
\* same upload keeps the list.
C9_ColumnListMirrors ==
    [][ /\ page'.error # "ValueError"
        /\ (file' # NoFile /\ Has(session', "modified_columns"))
              => Len(session'.modified_columns) = Len(file'.content.header)
        /\ RenameStepDone(page') => session'.modified_columns = df'.columns
        /\ ( /\ RenameStepDone(page') /\ file' = file
             /\ Has(session, "modified_columns")
             /\ event'.kind \notin {"upload", "reset"} )
           => session'.modified_columns =
                 [i \in DOMAIN session.modified_columns |->
                     IF event'.kind = "rename" /\ event'.pos = i
                     THEN event'.text ELSE session.modified_columns[i]] ]_vars

\* C9 witness: after a rename of the second column, a later run that
\* renames nothing still has the renamed list, on the table and stored.
C9_Witness ==
    /\ event.kind = "dedup" /\ page.outcome = "ok"
    /\ session.modified_columns = <<"a", "c">>
    /\ df.columns = <<"a", "c">>
    /\ file.content.header = <<"a", "b">>

\* C10: once the edit section is on the page for a table with a row, the
\* rows the selector offers are exactly the labels 0..n-1 of the table
\* being edited, label r sits at position r, the offered columns are the
\* table's column names, and line 87 does not raise.
C10_EditTargetValid ==
    (page.colOptions # <<>> /\ Len(Loaded.rows) >= 1) =>
        /\ page.error # "KeyError"
        /\ page.colOptions = Loaded.columns
        /\ Range(page.rowOptions) = Labels(Loaded)
        /\ \A k \in DOMAIN page.rowOptions :
              /\ page.rowOptions[k] \in 0..(Len(Loaded.rows) - 1)
              /\ Loaded.rows[page.rowOptions[k] + 1].label = page.rowOptions[k]

\* C10 witness: 'Delete Duplicates' has just removed a row; the selector of
\* that page offers the three rows of the table as it is read again by the
\* next run.
C10_Witness ==
    /\ event.kind = "dedup" /\ page.outcome = "ok"
    /\ page.duplicate_count = 1
    /\ Len(df.rows) = 2
    /\ page.rowOptions = <<0, 1, 2>>

====
